---- MODULE Spec2Model ----
(***************************************************************************)
(* Request handlers of the Oboloi API (main.py): list_products with its    *)
(* lazy seeding, create_inquiry with its boundary validation, and the      *)
(* /test diagnostic handler, over a document store with two collections.   *)
(***************************************************************************)
EXTENDS Integers, Sequences, FiniteSets, TLC

(***************************************************************************)
(* Bounds of the model.                                                    *)
(***************************************************************************)
NumReq == 2          \* list-products requests that may run, concurrently
MaxSubmit == 3       \* inquiry submissions
MaxColl == 11        \* collections the store may expose to /test

Req == 1..NumReq

VARIABLES
    products,     \* the productapp collection: the documents it holds
    pc,           \* per list request: "start", "seed", "refetch", "done"
    idx,          \* per list request: the sample the seeding loop is at
    items,        \* per list request: the local `items`
    resp,         \* per list request: how the request ended
    fetchExc,     \* per list request: what its get_documents call raised
    attempts,     \* per list request: create_document calls per sample
    failed,       \* per list request: samples whose write raised
    lastDone,     \* the list request that last returned a list (0: none)
    clean,        \* no productapp write since lastDone returned
    inquiries,    \* the inquiry collection: the documents it holds
    nSubmit,      \* inquiry submissions made
    inq,          \* the last inquiry request: payload, outcome, attempts
    db,           \* the process-wide store handle seen by /test
    env,          \* which configuration values are set
    report        \* the last /test report

vars == <<products, pc, idx, items, resp, fetchExc, attempts, failed,
          lastDone, clean, inquiries, nSubmit, inq, db, env,
          report>>

prodVars == <<products, pc, idx, items, resp, fetchExc, attempts,
              failed, lastDone, clean>>
inqVars == <<inquiries, nSubmit, inq>>
testVars == <<db, env, report>>

(***************************************************************************)
(* Values.                                                                 *)
(***************************************************************************)
\* A store-native identifier, unique to the write (the writer and its count
\* of writes), and its text form, str(oid).
Oid(w, k) == [kind |-> "oid", n |-> <<w, k>>]
Str(v) == [kind |-> "string", n |-> v.n]
None == [kind |-> "null"]

\* Values of a response: text or null, and arrays.
JStr(t) == [kind |-> "string", text |-> t]
JArr(s) == [kind |-> "array", elems |-> s]

\* Failures the store adapter raises: a message text and its length.
Errors == { [text |-> "store unavailable", len |-> 17],
            [text |-> "ServerSelectionTimeoutError: no primary available for writes now", len |-> 64] }
NoExc == [text |-> "", len |-> 0]

\* str(e)
ErrText(e) == e.text

\* No inquiry request made yet: a payload with every key absent.
NoPayload == [name |-> "<absent>", email |-> <<"<absent>">>,
              company |-> "<absent>", message |-> "<absent>"]

\* The three demo records of list_products.
samples ==
    << [name |-> "Nimbus Desk",
        tagline |-> "Task management that feels weightless",
        description |-> "A beautifully minimal task manager with real-time collaboration and calendar sync.",
        link |-> "https://example.com/nimbus",
        image |-> "https://images.unsplash.com/photo-1555099962-4199c345e5dd?q=80&w=1200&auto=format&fit=crop",
        tags |-> <<"SaaS", "Productivity", "Collaboration">>,
        pricing |-> "Freemium"],
       [name |-> "Pulse Analytics",
        tagline |-> "Product analytics for lean teams",
        description |-> "Event tracking, funnels, and retention without the bloat. Privacy-first by default.",
        link |-> "https://example.com/pulse",
        image |-> "https://images.unsplash.com/photo-1556157382-97eda2d62296?q=80&w=1200&auto=format&fit=crop",
        tags |-> <<"Analytics", "Privacy", "SaaS">>,
        pricing |-> "Starts at $19/mo"],
       [name |-> "Relay Support",
        tagline |-> "Shared inbox that actually scales",
        description |-> "Manage email, chat, and social in one place. Powered by AI-assisted responses.",
        link |-> "https://example.com/relay",
        image |-> "https://images.unsplash.com/photo-1558655146-d09347e92766?q=80&w=1200&auto=format&fit=crop",
        tags |-> <<"Support", "AI", "Inbox">>,
        pricing |-> "$29/agent/mo"] >>

NumSamples == Len(samples)

\* The records the admin path may write, each once: a document stored
\* without the optional keys, `tags` among them.
AdminRecords ==
    << [name |-> "Quill Notes", tagline |-> "Notes that link themselves",
        description |-> "A notebook with backlinks."] >>

\* The identifiers of the admin path's writes, apart from every request's.
AdminId(i) == Oid(0, i)

(***************************************************************************)
(* The document store adapter: create_document and get_documents.          *)
(***************************************************************************)
\* The stored form of a record: the record plus the identifier assigned.
Stored(rec, id) == [k \in DOMAIN rec \cup {"_id"} |->
                        IF k = "_id" THEN id ELSE rec[k]]

\* create_document(collection, rec) when it succeeds; the document gets id.
create_document(coll, rec, id) == coll \cup {Stored(rec, id)}

\* get_documents(collection) when it succeeds.
get_documents(coll) == coll

(***************************************************************************)
(* list_products                                                           *)
(***************************************************************************)
\* Lines 99-101: every item's native identifier becomes its text form.
ConvertId(item) ==
    IF "_id" \in DOMAIN item /\ item["_id"] # None
    THEN [item EXCEPT !["_id"] = Str(item["_id"])]
    ELSE item

ConvertIds(its) == { ConvertId(item) : item \in its }

\* A field of the response model, with its default when the key is absent.
FieldOr(item, k, default) == IF k \in DOMAIN item THEN item[k] ELSE default

\* An optional text field of the response model: null when absent.
OptText(item, k) == IF k \in DOMAIN item THEN JStr(item[k]) ELSE None

\* ProductOut with `tags` left null when the item has no such key.
ProductOut_nullTags(item) ==
    [id |-> FieldOr(item, "_id", None),
     name |-> item.name,
     tagline |-> item.tagline,
     description |-> item.description,
     link |-> OptText(item, "link"),
     image |-> OptText(item, "image"),
     tags |-> IF "tags" \in DOMAIN item THEN JArr(item.tags) ELSE None,
     pricing |-> OptText(item, "pricing")]

\* ProductOut built from an item: `id` is filled from the key `_id`.
ProductOut(item) ==
    [id |-> FieldOr(item, "_id", None),
     name |-> item.name,
     tagline |-> item.tagline,
     description |-> item.description,
     link |-> OptText(item, "link"),
     image |-> OptText(item, "image"),
     tags |-> JArr(FieldOr(item, "tags", <<>>)),
     pricing |-> OptText(item, "pricing")]

\* ProductOut accepts an item: required text present, id a string or null.
ProductOutValid(item) ==
    /\ {"name", "tagline", "description"} \subseteq DOMAIN item
    /\ FieldOr(item, "_id", None).kind \in {"string", "null"}

\* The response for the returned items, through response_model.
Respond(its) ==
    IF \A item \in its : ProductOutValid(item)
    THEN [kind |-> "ok", status |-> 200,
          body |-> { ProductOut(item) : item \in its }]
    ELSE [kind |-> "unhandled", status |-> 500, detail |-> "Internal Server Error"]

\* raise HTTPException(status_code=500, detail=str(e))
HTTPException500(e) == [kind |-> "http_error", status |-> 500, detail |-> ErrText(e)]

\* An exception that leaves the handler uncaught: the caller gets the
\* server's generic error, without the exception's text.
Unhandled(e) == [kind |-> "unhandled", status |-> 500, detail |-> "Internal Server Error"]

NoResp == [kind |-> "none"]

\* Seeding whatever the fetch returned.
ShouldSeed_always(its) == TRUE

\* `if not items`
ShouldSeed(its) == its = {}

\* A list request returns a list: bookkeeping of the order of requests.
Returned(r) ==
    /\ lastDone' = r
    /\ clean' = TRUE

\* The fetch raising, taken for an empty result: the handler goes on to seed.
ListFetchFail_asEmpty(r, e) ==
    /\ pc[r] = "start"
    /\ pc' = [pc EXCEPT ![r] = "seed"]
    /\ idx' = [idx EXCEPT ![r] = 1]
    /\ fetchExc' = [fetchExc EXCEPT ![r] = e]
    /\ UNCHANGED <<products, resp, items, attempts, failed, lastDone, clean>>

\* Lines 55-58, the fetch raising.
ListFetchFail(r, e) ==
    /\ pc[r] = "start"
    /\ pc' = [pc EXCEPT ![r] = "done"]
    /\ fetchExc' = [fetchExc EXCEPT ![r] = e]
    /\ resp' = [resp EXCEPT ![r] = HTTPException500(e)]
    /\ UNCHANGED <<products, idx, items, attempts, failed,
                   lastDone, clean>>

\* Lines 55-61 and 98-102, the fetch returning.
ListFetchOk(r) ==
    /\ pc[r] = "start"
    /\ items' = [items EXCEPT ![r] = get_documents(products)]
    /\ IF ShouldSeed(items'[r])
       THEN /\ pc' = [pc EXCEPT ![r] = "seed"]
            /\ idx' = [idx EXCEPT ![r] = 1]
            /\ UNCHANGED <<resp, lastDone, clean>>
       ELSE /\ pc' = [pc EXCEPT ![r] = "done"]
            /\ resp' = [resp EXCEPT ![r] = Respond(ConvertIds(items'[r]))]
            /\ Returned(r)
            /\ UNCHANGED idx
    /\ UNCHANGED <<products, fetchExc, attempts, failed>>

\* The seeding loop stopping one sample short.
LoopNext_short(r) ==
    /\ idx' = [idx EXCEPT ![r] = idx[r] + 1]
    /\ pc' = [pc EXCEPT ![r] = IF idx[r] >= NumSamples - 1 THEN "refetch" ELSE "seed"]

\* The seeding loop moves to the next sample, or to the re-fetch.
LoopNext(r) ==
    /\ idx' = [idx EXCEPT ![r] = idx[r] + 1]
    /\ pc' = [pc EXCEPT ![r] = IF idx[r] = NumSamples THEN "refetch" ELSE "seed"]

\* The write of one sample skipped when a record of that name is stored.
ListSeedOk_upsert(r) ==
    /\ pc[r] = "seed"
    /\ products' = IF \E p \in products : p.name = samples[idx[r]].name
                   THEN products
                   ELSE create_document(products, samples[idx[r]], Oid(r, idx[r]))
    /\ attempts' = [attempts EXCEPT ![r][idx[r]] = @ + 1]
    /\ clean' = FALSE
    /\ LoopNext(r)
    /\ UNCHANGED <<items, resp, fetchExc, failed, lastDone>>

\* Lines 91-93, the write of one sample succeeding.
ListSeedOk(r) ==
    /\ pc[r] = "seed"
    /\ products' = create_document(products, samples[idx[r]], Oid(r, idx[r]))
    /\ attempts' = [attempts EXCEPT ![r][idx[r]] = @ + 1]
    /\ clean' = FALSE
    /\ LoopNext(r)
    /\ UNCHANGED <<items, resp, fetchExc, failed, lastDone>>

\* The write of one sample raising, and the failure ending the request.
ListSeedFail_abort(r) ==
    /\ pc[r] = "seed"
    /\ attempts' = [attempts EXCEPT ![r][idx[r]] = @ + 1]
    /\ failed' = [failed EXCEPT ![r] = @ \cup {idx[r]}]
    /\ pc' = [pc EXCEPT ![r] = "done"]
    /\ resp' = [resp EXCEPT ![r] = Unhandled(NoExc)]
    /\ UNCHANGED <<products, idx, items, fetchExc, lastDone, clean>>

\* Lines 91-95, the write of one sample raising: swallowed.
ListSeedFail(r) ==
    /\ pc[r] = "seed"
    /\ attempts' = [attempts EXCEPT ![r][idx[r]] = @ + 1]
    /\ failed' = [failed EXCEPT ![r] = @ \cup {idx[r]}]
    /\ LoopNext(r)
    /\ UNCHANGED <<products, items, resp, fetchExc, lastDone, clean>>

\* Lines 96-102, the re-fetch returning.
ListRefetchOk(r) ==
    /\ pc[r] = "refetch"
    /\ items' = [items EXCEPT ![r] = get_documents(products)]
    /\ resp' = [resp EXCEPT ![r] = Respond(ConvertIds(items'[r]))]
    /\ pc' = [pc EXCEPT ![r] = "done"]
    /\ Returned(r)
    /\ UNCHANGED <<products, idx, fetchExc, attempts, failed>>

\* Line 96, the re-fetch raising: no handler encloses it.
ListRefetchFail(r, e) ==
    /\ pc[r] = "refetch"
    /\ fetchExc' = [fetchExc EXCEPT ![r] = e]
    /\ resp' = [resp EXCEPT ![r] = Unhandled(e)]
    /\ pc' = [pc EXCEPT ![r] = "done"]
    /\ UNCHANGED <<products, idx, items, attempts, failed,
                   lastDone, clean>>

\* The admin path writes a record to productapp.
AdminCreate(i) ==
    /\ \A p \in products : p["_id"] # AdminId(i)
    /\ products' = create_document(products, AdminRecords[i], AdminId(i))
    /\ clean' = FALSE
    /\ UNCHANGED <<pc, idx, items, resp, fetchExc, attempts, failed, lastDone>>

ProdInit ==
    /\ products = {}
    /\ pc = [r \in Req |-> "start"]
    /\ idx = [r \in Req |-> 0]
    /\ items = [r \in Req |-> {}]
    /\ resp = [r \in Req |-> NoResp]
    /\ fetchExc = [r \in Req |-> NoExc]
    /\ attempts = [r \in Req |-> [i \in 1..NumSamples |-> 0]]
    /\ failed = [r \in Req |-> {}]
    /\ lastDone = 0
    /\ clean = TRUE

InqIdle ==
    /\ inquiries = {}
    /\ nSubmit = 0
    /\ inq = [kind |-> "none", payload |-> NoPayload, ran |-> FALSE, writes |-> 0,
              exc |-> NoExc, resp |-> NoResp]

TestIdle ==
    /\ db = [state |-> "none"]
    /\ env = [url |-> FALSE, name |-> FALSE]
    /\ report = [kind |-> "none"]

Init == ProdInit /\ InqIdle /\ TestIdle

Next ==
    \/ \E r \in Req, e \in Errors : ListFetchFail(r, e) /\ UNCHANGED <<inqVars, testVars>>
    \/ \E r \in Req : ListFetchOk(r) /\ UNCHANGED <<inqVars, testVars>>
    \/ \E r \in Req : ListSeedOk(r) /\ UNCHANGED <<inqVars, testVars>>
    \/ \E r \in Req : ListSeedFail(r) /\ UNCHANGED <<inqVars, testVars>>
    \/ \E r \in Req : ListRefetchOk(r) /\ UNCHANGED <<inqVars, testVars>>
    \/ \E r \in Req, e \in Errors : ListRefetchFail(r, e) /\ UNCHANGED <<inqVars, testVars>>
    \/ \E i \in DOMAIN AdminRecords : AdminCreate(i) /\ UNCHANGED <<inqVars, testVars>>

Spec == Init /\ [][Next]_vars

(***************************************************************************)
(* create_inquiry                                                          *)
(***************************************************************************)
\* Email texts, as their characters.
Emails ==
    { <<"a", "@", "b", ".", "c">>,      \* ada@example.com
      <<"a", ".", "a", "@", "b", ".", "c">>,
      <<"a", "b">>,                      \* not-an-email: no @
      <<"a", "@", "b">>,                 \* no dot in the domain
      <<"@", "b", ".", "c">>,            \* no local part
      <<"a", "@", ".", "c">>,            \* an empty domain label
      <<"a", "@", "b", ".">> }           \* the domain ends with a dot

\* No dot first, last or next to another dot.
DotsOk(t) ==
    /\ t # <<>>
    /\ t[1] # "." /\ t[Len(t)] # "."
    /\ \A i \in 1..(Len(t) - 1) : ~(t[i] = "." /\ t[i + 1] = ".")

\* EmailStr accepts the text: local-part@domain, the domain with a dot.
EmailValid(t) ==
    /\ Cardinality({ i \in 1..Len(t) : t[i] = "@" }) = 1
    /\ LET at == CHOOSE i \in 1..Len(t) : t[i] = "@"
           local == SubSeq(t, 1, at - 1)
           domain == SubSeq(t, at + 1, Len(t))
       IN  /\ DotsOk(local)
           /\ DotsOk(domain)
           /\ \E i \in 1..Len(domain) : domain[i] = "."

\* The payloads sent: each key present or not, text possibly empty.
Payloads ==
    { p \in [name : {"<absent>", "", "Ada"},
             email : Emails \cup {<<"<absent>">>},
             company : {"<absent>", "Acme"},
             message : {"<absent>", "", "hi"}] : TRUE }

Has(p, k) == IF k = "email" THEN p[k] # <<"<absent>">> ELSE p[k] # "<absent>"

\* InquiryIn: the fields of the payload that violate the model, all of them.
InquiryIn(p) ==
    { k \in {"name", "message"} : ~Has(p, k) }
        \cup (IF Has(p, "email") /\ EmailValid(p.email) THEN {} ELSE {"email"})

\* payload.model_dump(): an absent company is null.
model_dump(p) ==
    [name |-> p.name, email |-> p.email, message |-> p.message,
     company |-> IF Has(p, "company") THEN JStr(p.company) ELSE None]

\* InquirySchema(**data): the fields that violate the schema.
InquirySchema(d) ==
    { k \in {"name", "message"} : d[k] = "" }
        \cup (IF EmailValid(d.email) THEN {} ELSE {"email"})

\* The identifier the store gives the n-th inquiry write.
InquiryId(n) == Oid(1, n)

\* {"status": "ok", "id": inserted_id}
OkBody_coerced(inserted_id) == [status |-> "ok", id |-> Str(inserted_id)]

OkBody(inserted_id) == [status |-> "ok", id |-> inserted_id]

\* The request is rejected at the boundary: the handler does not run.
Submit422(p) ==
    /\ nSubmit < MaxSubmit
    /\ InquiryIn(p) # {}
    /\ nSubmit' = nSubmit + 1
    /\ inq' = [kind |-> "req", payload |-> p, ran |-> FALSE, writes |-> 0, exc |-> NoExc,
               resp |-> [kind |-> "http_error", status |-> 422,
                         detail |-> InquiryIn(p)]]
    /\ UNCHANGED inquiries

\* Line 109 raising inside the handler's try.
SubmitSchemaFail(p) ==
    /\ nSubmit < MaxSubmit
    /\ InquiryIn(p) = {}
    /\ InquirySchema(model_dump(p)) # {}
    /\ nSubmit' = nSubmit + 1
    /\ inq' = [kind |-> "req", payload |-> p, ran |-> TRUE, writes |-> 0, exc |-> NoExc,
               resp |-> [kind |-> "http_error", status |-> 500,
                         detail |-> InquirySchema(model_dump(p))]]
    /\ UNCHANGED inquiries

\* Lines 107-113, the write raising.
SubmitStoreFail(p, e) ==
    /\ nSubmit < MaxSubmit
    /\ InquiryIn(p) = {}
    /\ InquirySchema(model_dump(p)) = {}
    /\ nSubmit' = nSubmit + 1
    /\ inq' = [kind |-> "req", payload |-> p, ran |-> TRUE, writes |-> 1, exc |-> e,
               resp |-> HTTPException500(e)]
    /\ UNCHANGED inquiries

\* The boundary letting every payload through to the handler.
SubmitOk_unvalidated(p) ==
    /\ nSubmit < MaxSubmit
    /\ nSubmit' = nSubmit + 1
    /\ inquiries' = create_document(inquiries, model_dump(p), InquiryId(nSubmit + 1))
    /\ inq' = [kind |-> "req", payload |-> p, ran |-> TRUE, writes |-> 1, exc |-> NoExc,
               resp |-> [kind |-> "ok", status |-> 200,
                         body |-> OkBody(InquiryId(nSubmit + 1))]]

\* Lines 107-111, the write succeeding.
SubmitOk(p) ==
    /\ nSubmit < MaxSubmit
    /\ InquiryIn(p) = {}
    /\ InquirySchema(model_dump(p)) = {}
    /\ nSubmit' = nSubmit + 1
    /\ inquiries' = create_document(inquiries, model_dump(p), InquiryId(nSubmit + 1))
    /\ inq' = [kind |-> "req", payload |-> p, ran |-> TRUE, writes |-> 1, exc |-> NoExc,
               resp |-> [kind |-> "ok", status |-> 200,
                         body |-> OkBody(InquiryId(nSubmit + 1))]]

InquiryInit == ProdInit /\ InqIdle /\ TestIdle

InquiryNext ==
    \/ \E p \in Payloads : Submit422(p) /\ UNCHANGED <<prodVars, testVars>>
    \/ \E p \in Payloads : SubmitSchemaFail(p) /\ UNCHANGED <<prodVars, testVars>>
    \/ \E p \in Payloads : SubmitOk(p) /\ UNCHANGED <<prodVars, testVars>>
    \/ \E p \in Payloads, e \in Errors : SubmitStoreFail(p, e) /\ UNCHANGED <<prodVars, testVars>>

InquirySpec == InquiryInit /\ [][InquiryNext]_vars

(***************************************************************************)
(* test_database                                                           *)
(***************************************************************************)
ShownCollections == 10     \* collections[:10]
ErrSlice == 50             \* str(e)[:50]

Min(a, b) == IF a < b THEN a ELSE b

\* str(e)[:n]: the first n characters of the failure's text.
Slice(e, n) == [of |-> e.text, len |-> Min(e.len, n)]

\* The store handle: absent, or present with the collections it exposes and
\* the failure, if any, that listing them raises.
Handles ==
    { [state |-> "none", colls |-> <<>>, exc |-> NoExc] }
        \cup { [state |-> "working", colls |-> [i \in 1..n |-> i], exc |-> NoExc] :
                 n \in 0..MaxColl }
        \cup { [state |-> "failing", colls |-> <<>>, exc |-> e] : e \in Errors }

SetOrNot(present) == IF present THEN "Set" ELSE "Not Set"

\* Lines 118-125.
InitialReport ==
    [backend |-> "Running",
     database |-> [tag |-> "Not Available", text |-> Slice(NoExc, 0)],
     database_url |-> "null",
     database_name |-> "null",
     connection_status |-> "Not Connected",
     collections |-> <<>>]

\* collections kept whole.
Shown_all(colls) == colls

\* collections[:10]
Shown(colls) == SubSeq(colls, 1, Min(Len(colls), ShownCollections))

\* Lines 133-138: the listing, guarded on its own.
Listed(rep, d) ==
    IF d.state = "working"
    THEN [rep EXCEPT !.collections = Shown(d.colls),
                     !.database = [tag |-> "Connected & Working", text |-> Slice(NoExc, 0)]]
    ELSE [rep EXCEPT !.database = [tag |-> "Connected but Error",
                                   text |-> Slice(d.exc, ErrSlice)]]

\* Lines 127-142.
Probed(rep, d, ev) ==
    IF d.state # "none"
    THEN Listed([rep EXCEPT !.database = [tag |-> "Available", text |-> Slice(NoExc, 0)],
                            !.database_url = SetOrNot(ev.url),
                            !.database_name = "db.name",
                            !.connection_status = "Connected"], d)
    ELSE [rep EXCEPT !.database = [tag |-> "Available but not initialized",
                                   text |-> Slice(NoExc, 0)]]

\* Lines 144-146.
Finished(rep, ev) ==
    [rep EXCEPT !.database_url = SetOrNot(ev.url),
                !.database_name = SetOrNot(ev.name)]

\* GET /test
test_database ==
    /\ report' = [kind |-> "ok", status |-> 200,
                  body |-> Finished(Probed(InitialReport, db, env), env)]
    /\ UNCHANGED <<db, env>>

\* The store behind the handle starts or stops failing.
StoreChange(d) ==
    /\ db.state # "none"
    /\ d.state # "none"
    /\ d # db
    /\ db' = d
    /\ UNCHANGED <<env, report>>

TestInit ==
    /\ ProdInit /\ InqIdle
    /\ db \in Handles
    /\ env \in [url : BOOLEAN, name : BOOLEAN]
    /\ report = [kind |-> "none"]

TestNext ==
    \/ test_database /\ UNCHANGED <<prodVars, inqVars>>
    \/ \E d \in Handles : StoreChange(d) /\ UNCHANGED <<prodVars, inqVars>>

TestSpec == TestInit /\ [][TestNext]_vars

(***************************************************************************)
(* Properties of list_products.                                            *)
(***************************************************************************)
NoAttempts == [i \in 1..NumSamples |-> 0]
OneAttemptEach == [i \in 1..NumSamples |-> 1]
SeedNames == { samples[i].name : i \in 1..NumSamples }
Ids(docs) == { d["_id"] : d \in docs }
WrittenBy(r) == { d \in products : d["_id"].n[1] = r }
SawEmpty(r) == idx[r] > 0

\* The response record of sample i stored under identifier id.
SeedOut(i, id) ==
    [id |-> Str(id), name |-> samples[i].name, tagline |-> samples[i].tagline,
     description |-> samples[i].description, link |-> JStr(samples[i].link),
     image |-> JStr(samples[i].image), tags |-> JArr(samples[i].tags),
     pricing |-> JStr(samples[i].pricing)]

\* C1: when the first fetch of a list request raises, the request ends at
\* once with a 500 whose detail is the failure's text; the step writes
\* nothing, no seed write was or is ever attempted by that request.
C1_FetchFailure500NoSeed ==
    [][\A r \in Req :
          /\ (pc[r] = "start" /\ fetchExc'[r] # NoExc) =>
                 /\ pc'[r] = "done"
                 /\ resp'[r] = [kind |-> "http_error", status |-> 500,
                                detail |-> fetchExc'[r].text]
                 /\ products' = products
                 /\ attempts'[r] = NoAttempts
          /\ (pc[r] = "done" /\ ~SawEmpty(r)) =>
                 /\ pc'[r] = "done"
                 /\ attempts'[r] = NoAttempts
                 /\ WrittenBy(r)' = {}]_vars

C1_Witness ==
    \E r \in Req : /\ pc[r] = "done"
                   /\ resp[r].kind = "http_error"
                   /\ fetchExc[r] \in Errors
                   /\ ~SawEmpty(r)
                   /\ products = {}

\* C2: every failure of get_documents in a list request, on the first fetch
\* or on the re-fetch, ends the request with a 500 whose detail is the
\* failure's text, never with an exception leaving the handler.
C2_EveryFetchFailureIs500WithText ==
    \A r \in Req :
        fetchExc[r] # NoExc =>
            /\ resp[r].kind = "http_error"
            /\ resp[r].status = 500
            /\ resp[r].detail = fetchExc[r].text

\* C3: a request that saw the store empty attempts each of the three seed
\* writes exactly once whatever subset of them fails; a failed write leaves
\* no record and ends nothing; when the re-fetch returns, the request
\* succeeds with exactly the records the store holds at the re-fetch: its
\* own seeds that were persisted, and what others wrote, each under the
\* text form of its stored identifier.
C3_SeedInv ==
    \A r \in Req :
        /\ \A i \in 1..NumSamples : attempts[r][i] <= 1
        /\ SawEmpty(r) =>
              /\ \A i \in 1..NumSamples : attempts[r][i] = (IF i < idx[r] THEN 1 ELSE 0)
              /\ Ids(WrittenBy(r)) = { Oid(r, i) : i \in (1..(idx[r] - 1)) \ failed[r] }
              /\ pc[r] = "seed" => resp[r] = NoResp
              /\ pc[r] \in {"refetch", "done"} => attempts[r] = OneAttemptEach
              /\ (pc[r] = "done" /\ fetchExc[r] = NoExc) =>
                    /\ resp[r].kind = "ok"
                    /\ resp[r].status = 200
                    /\ { o.id : o \in resp[r].body } = { Str(id) : id \in Ids(items[r]) }
                    /\ Cardinality(resp[r].body) = Cardinality(items[r])
                    /\ { o \in resp[r].body : o.id.n[1] = r }
                         = { SeedOut(i, Oid(r, i)) : i \in (1..NumSamples) \ failed[r] }

C3_SeedStep ==
    \A r \in Req :
        (pc[r] = "refetch" /\ pc'[r] = "done" /\ fetchExc'[r] = NoExc) =>
            /\ items'[r] = products
            /\ products' = products

\* C3: seed writes are attempted once each, their failures swallowed, and
\* the response is what the store returns on the re-fetch (C3_SeedInv in
\* every state, C3_SeedStep on every step).
C3_SeedFailuresSwallowed == []C3_SeedInv /\ [][C3_SeedStep]_vars

C3_Witness ==
    \E r \in Req :
        /\ pc[r] = "done" /\ SawEmpty(r) /\ resp[r].kind = "ok"
        /\ failed[r] = {2}
        /\ Cardinality(resp[r].body) > 2
        /\ \E o \in resp[r].body : o.id.n[1] # r

\* C4: two requests that both saw the store empty and whose seed writes all
\* succeeded leave every demo entry in productapp once per request: nothing
\* separates the emptiness check from the writes.
C4_BothSeedDuplicates ==
    \A r1, r2 \in Req :
        (/\ r1 # r2
         /\ SawEmpty(r1) /\ SawEmpty(r2)
         /\ pc[r1] \in {"refetch", "done"} /\ pc[r2] \in {"refetch", "done"}
         /\ failed[r1] = {} /\ failed[r2] = {}) =>
            \A i \in 1..NumSamples :
                /\ Stored(samples[i], Oid(r1, i)) \in products
                /\ Stored(samples[i], Oid(r2, i)) \in products
                /\ Cardinality({ d \in products : d.name = samples[i].name }) >= 2

C4_Witness ==
    /\ \A n \in SeedNames : Cardinality({ d \in products : d.name = n }) = 2
    /\ \A r \in {1, 2} : pc[r] = "done" /\ resp[r].kind = "ok"

\* C5: a request that saw the store empty, with no failed call and no other
\* writer, returns exactly the three demo entries, each with its given field
\* values and a text id, and leaves exactly those three in productapp.
C5_SingleRequestSeedsThree ==
    \A r \in Req :
        (/\ pc[r] = "done" /\ SawEmpty(r)
         /\ failed[r] = {} /\ fetchExc[r] = NoExc
         /\ products = WrittenBy(r)) =>
            /\ resp[r].kind = "ok"
            /\ resp[r].body = { SeedOut(i, Oid(r, i)) : i \in 1..NumSamples }
            /\ Cardinality(resp[r].body) = 3
            /\ { o.name : o \in resp[r].body } = {"Nimbus Desk", "Pulse Analytics", "Relay Support"}
            /\ products = { Stored(samples[i], Oid(r, i)) : i \in 1..NumSamples }
            /\ Cardinality(products) = 3

C5_Witness ==
    \E r \in Req :
        /\ pc[r] = "done" /\ SawEmpty(r) /\ failed[r] = {} /\ fetchExc[r] = NoExc
        /\ products = WrittenBy(r)
        /\ Cardinality(resp[r].body) = 3
        /\ \A q \in Req \ {r} : pc[q] = "start"

\* C6: a list request whose fetch returns a non-empty store ends in that
\* step without writing or attempting a write, and, when no write came since
\* the previous request returned, with that request's response; a request
\* that did not see the store empty never seeds.
C6_ListStep ==
    \A r \in Req :
        (pc[r] = "start" /\ pc'[r] # "start" /\ fetchExc'[r] = NoExc /\ products # {}) =>
            /\ pc'[r] = "done"
            /\ resp'[r].kind = "ok"
            /\ products' = products
            /\ attempts'[r] = NoAttempts
            /\ { o.id : o \in resp'[r].body } = { Str(id) : id \in Ids(products) }
            /\ (clean /\ lastDone # 0) => resp'[r] = resp[lastDone]

\* C6: listing a non-empty store writes nothing and repeats the previous
\* response when nothing was written in between (C6_ListStep on every
\* step); a request that did not see the store empty attempts no write.
C6_SequentialListingIdempotent ==
    /\ [](\A r \in Req : (pc[r] = "done" /\ ~SawEmpty(r)) => attempts[r] = NoAttempts)
    /\ [][C6_ListStep]_vars

C6_Witness ==
    \E r1, r2 \in Req :
        /\ r1 # r2
        /\ pc[r1] = "done" /\ SawEmpty(r1) /\ resp[r1].kind = "ok"
        /\ Cardinality(resp[r1].body) = 3
        /\ pc[r2] = "done" /\ ~SawEmpty(r2) /\ lastDone = r2 /\ clean
        /\ resp[r2] = resp[r1]
        /\ attempts[r2] = NoAttempts
        /\ Cardinality(products) = 3

\* C9: every record of a successful list response has a text id, never a
\* native identifier or null, and an array for tags, also for a stored
\* document that has no tags key.
C9_IdTextTagsArray ==
    \A r \in Req :
        resp[r].kind = "ok" =>
            \A o \in resp[r].body :
                /\ o.id.kind = "string"
                /\ o.tags.kind = "array"

C9_Witness ==
    \E r \in Req :
        /\ resp[r].kind = "ok"
        /\ \E o \in resp[r].body : o.tags = JArr(<<>>) /\ o.id = Str(AdminId(1))
        /\ \E o \in resp[r].body : o.tags = JArr(<<"SaaS", "Productivity", "Collaboration">>)

(***************************************************************************)
(* Properties of create_inquiry.                                           *)
(***************************************************************************)
\* The payload lacks a required key or its email is malformed.
Malformed(p) ==
    \/ ~Has(p, "name") \/ ~Has(p, "email") \/ ~Has(p, "message")
    \/ ~EmailValid(p.email)

\* The payload has non-empty name and message and a well-formed email.
WellFormed(p) ==
    /\ Has(p, "name") /\ p.name # ""
    /\ Has(p, "message") /\ p.message # ""
    /\ Has(p, "email") /\ EmailValid(p.email)

\* C7: a payload missing name, email or message, or with a malformed email,
\* is answered 422 at the boundary: the handler does not run, no write is
\* attempted, the inquiry collection is unchanged and no id is returned.
C7_MalformedRejectedAtBoundary ==
    [][(nSubmit' # nSubmit /\ Malformed(inq'.payload)) =>
          /\ inq'.resp.kind = "http_error"
          /\ inq'.resp.status = 422
          /\ inq'.resp.detail # {}
          /\ ~inq'.ran
          /\ inq'.writes = 0
          /\ inquiries' = inquiries]_vars

C7_Witness ==
    /\ inq.kind = "req"
    /\ inq.payload.email = <<"a", "b">>
    /\ Has(inq.payload, "name") /\ Has(inq.payload, "message")
    /\ inq.resp.status = 422
    /\ inquiries # {}

\* C8: for a well-formed payload the handler calls create_document once; when
\* the call returns, the response is {status: ok, id} with the identifier the
\* store assigned, in its native form, and exactly one record was added, also
\* when the same payload is already stored; when it raises, the response is a
\* 500 with the failure's text and nothing was added.
C8_OneWriteNoRetry ==
    [][(nSubmit' # nSubmit /\ WellFormed(inq'.payload)) =>
          /\ inq'.ran
          /\ inq'.writes = 1
          /\ inq'.resp.kind \in {"ok", "http_error"}
          /\ inq'.resp.kind = "ok" =>
                /\ inq'.resp.status = 200
                /\ inq'.resp.body.status = "ok"
                /\ inq'.resp.body.id.kind = "oid"
                /\ inq'.resp.body.id \notin Ids(inquiries)
                /\ inquiries' = inquiries \cup
                      {Stored(model_dump(inq'.payload), inq'.resp.body.id)}
                /\ Cardinality(inquiries') = Cardinality(inquiries) + 1
          /\ inq'.resp.kind = "http_error" =>
                /\ inq'.exc \in Errors
                /\ inq'.resp.status = 500
                /\ inq'.resp.detail = inq'.exc.text
                /\ inquiries' = inquiries]_vars

C8_Witness ==
    /\ inq.kind = "req"
    /\ inq.resp.kind = "ok"
    /\ \E d1, d2 \in inquiries :
          /\ d1["_id"] # d2["_id"]
          /\ d2["_id"] = inq.resp.body.id
          /\ \A k \in {"name", "email", "company", "message"} : d1[k] = d2[k]

(***************************************************************************)
(* Properties of test_database.                                            *)
(***************************************************************************)
\* C10: /test always ends with a structured report and status 200, for the
\* handle absent, working or failing; a failing listing only turns the
\* database field into an error indicator carrying at most 50 characters of
\* the failure's text; collections never holds more than 10 names.
C10_TestAlwaysReports ==
    [][report' # report =>
          /\ report'.kind = "ok"
          /\ report'.status = 200
          /\ LET b == report'.body IN
              /\ b.backend = "Running"
              /\ Len(b.collections) <= 10
              /\ b.database_url = SetOrNot(env.url)
              /\ b.database_name = SetOrNot(env.name)
              /\ db.state = "none" =>
                    /\ b.database.tag = "Available but not initialized"
                    /\ b.connection_status = "Not Connected"
                    /\ b.collections = <<>>
              /\ db.state = "working" =>
                    /\ b.database.tag = "Connected & Working"
                    /\ b.connection_status = "Connected"
                    /\ Len(b.collections) = Min(Len(db.colls), 10)
                    /\ \A i \in 1..Len(b.collections) : b.collections[i] = db.colls[i]
              /\ db.state = "failing" =>
                    /\ b.database.tag = "Connected but Error"
                    /\ b.database.text.of = db.exc.text
                    /\ b.database.text.len <= 50
                    /\ b.connection_status = "Connected"
                    /\ b.collections = <<>>]_vars

C10_Witness ==
    /\ report.kind = "ok"
    /\ report.body.database.tag = "Connected but Error"
    /\ report.body.database.text.len = 50
    /\ db.state = "working" /\ Len(db.colls) > 10

====
